---- MODULE Spec2Model ----
(***************************************************************************)
(* Pointer-level model of the queue engine of lab0-c (src/queue.c).        *)
(*                                                                         *)
(* Memory is a heap of list_head link fields (next, prev), element payload *)
(* pointers (value) and payload strings (mem).  Every queue function is an *)
(* operator that transforms the heap exactly as the C statements do, and   *)
(* every API call is one action.                                           *)
(*                                                                         *)
(* Spec    : any interleaving of the API calls, from before q_new.         *)
(* SpecOps : one API call on every queue built by up to MaxNodes inserts,  *)
(*           with pre holding the heap the call started from.              *)
(* SpecPair: two calls in a row on the same queues: insert and remove at   *)
(*           one end, or q_delete_dup twice.                               *)
(* SpecFifo: inserts, removes and q_size in any order on a new queue, with *)
(*           the caller's count and abstract sequence kept in ghost.       *)
(* SpecShuffle: one q_shuffle, with every sequence of random indices, on   *)
(*           every queue built by up to MaxShuffle inserts.                *)
(***************************************************************************)
EXTENDS Integers, Sequences, FiniteSets, TLC

(* ------------------------------ bounds --------------------------------- *)
MaxNodes == 6       \* element blocks of the heap; longest input queue of SpecOps
MaxLive == 3        \* element blocks malloc hands out at one time under Spec
MaxHeld == 1        \* removed elements the caller of Spec keeps before releasing
MaxBuf == 3         \* largest bufsize a caller passes to q_remove_*
SizeBits == 16      \* modelled width of size_t
MaxIns == 4         \* successful inserts in one behaviour of SpecFifo
MaxShuffle == 3     \* longest input queue of SpecShuffle

NULL == 0

Nodes == 1..MaxNodes                \* addresses of element_t blocks
HeadAddr == MaxNodes + 1            \* address of the queue's list_head block
Addr == 1..(MaxNodes + 1)
StrIds == 1..MaxNodes               \* addresses of strdup'ed payloads

\* strings the caller passes to insert: "a", "b", "ab" (bytes 1, 2; NUL is 0)
Values == {<<1>>, <<2>>, <<1, 2>>}

VARIABLES
    q,      \* the caller's queue handle: NULL or HeadAddr
    next,   \* list_head.next of every block
    prev,   \* list_head.prev of every block
    value,  \* element_t.value of every element block (a payload address)
    mem,    \* content of every payload block
    nodes,  \* element blocks currently allocated
    strs,   \* payload blocks currently allocated
    hdr,    \* TRUE while the header block is allocated
    limit,  \* element blocks malloc can hand out at one time
    err,    \* TRUE once free() was handed a block that is not allocated
    held,   \* elements returned by q_remove_* and not yet released
    op,     \* the API call that produced this state
    ret,    \* its return value
    buf,    \* bytes it wrote through sp: offset -> byte
    arg,    \* its arguments
    pre,    \* the handle and heap the behaviour started from
    ghost   \* bookkeeping of the calls made so far, kept while ghost.on

vars == <<q, next, prev, value, mem, nodes, strs, hdr, limit, err, held, op, ret, buf, arg, pre, ghost>>

Heap == [next |-> next, prev |-> prev, value |-> value, mem |-> mem,
         nodes |-> nodes, strs |-> strs, hdr |-> hdr, limit |-> limit,
         err |-> err]

EmptyHeap(lim) ==
    [next |-> [a \in Addr |-> NULL], prev |-> [a \in Addr |-> NULL],
     value |-> [n \in Nodes |-> NULL], mem |-> [p \in StrIds |-> <<>>],
     nodes |-> {}, strs |-> {}, hdr |-> FALSE, limit |-> lim, err |-> FALSE]

Min(S) == CHOOSE x \in S : \A y \in S : x <= y

(* ------------------------- libc: malloc / free ------------------------- *)
\* free(e) of an element block; a block that is not allocated sets err
free_node(h, e) ==
    IF e \in h.nodes
    THEN [h EXCEPT !.nodes = @ \ {e}, !.next[e] = NULL, !.prev[e] = NULL,
                   !.value[e] = NULL]
    ELSE [h EXCEPT !.err = TRUE]

\* free(p) of a payload block
free_str(h, p) ==
    IF p \in h.strs
    THEN [h EXCEPT !.strs = @ \ {p}, !.mem[p] = <<>>]
    ELSE [h EXCEPT !.err = TRUE]

\* strcmp: difference of the first bytes that differ, NUL ending each string
RECURSIVE strcmp_from(_, _, _)
strcmp_from(a, b, i) ==
    LET ca == IF i <= Len(a) THEN a[i] ELSE 0
        cb == IF i <= Len(b) THEN b[i] ELSE 0
    IN  IF ca # cb THEN ca - cb
        ELSE IF ca = 0 THEN 0
        ELSE strcmp_from(a, b, i + 1)

strcmp(a, b) == strcmp_from(a, b, 1)

\* strncpy(sp, src, n): exactly n bytes written, NUL padded
strncpy(src, n) == [i \in 0..(n - 1) |-> IF i < Len(src) THEN src[i + 1] ELSE 0]

(* --------------------------- list.h primitives ------------------------- *)
INIT_LIST_HEAD(h, head) ==
    [h EXCEPT !.next[head] = head, !.prev[head] = head]

list_empty(h, head) == h.next[head] = head

list_add(h, node, head) ==
    LET nx == h.next[head]
    IN  [h EXCEPT !.prev[nx] = node, !.next[node] = nx,
                  !.prev[node] = head, !.next[head] = node]

list_add_tail(h, node, head) ==
    LET pv == h.prev[head]
    IN  [h EXCEPT !.next[pv] = node, !.next[node] = head,
                  !.prev[node] = pv, !.prev[head] = node]

list_del(h, node) ==
    LET nx == h.next[node]
        pv == h.prev[node]
    IN  [h EXCEPT !.prev[nx] = pv, !.next[pv] = nx]

list_move(h, node, head) == list_add(list_del(h, node), node, head)

\* list_entry is container_of: the list_head is the element's first link
\* field group, so the element is named by the same address
list_entry(p) == p

(* ------------------------------ queue.c -------------------------------- *)
\* q_new: m is malloc's outcome
q_new(h, m) ==
    IF m = "fail"
    THEN [h |-> h, ret |-> NULL]
    ELSE [h |-> INIT_LIST_HEAD([h EXCEPT !.hdr = TRUE], HeadAddr), ret |-> HeadAddr]

\* q_release_element that forgets free(e->value)
q_release_element_leak(h, e) == free_node(h, e)

q_release_element(h, e) == free_node(free_str(h, h.value[e]), e)

\* the list_for_each_entry_safe loop of q_free
RECURSIVE q_free_loop(_, _, _, _)
q_free_loop(h, l, curr, nxt) ==
    IF curr = l THEN h
    ELSE LET h1 == q_release_element(h, list_entry(curr))
         IN  q_free_loop(h1, l, nxt, h1.next[nxt])

q_free(h, l) ==
    IF l = NULL THEN h
    ELSE LET h1 == q_free_loop(h, l, h.next[l], h.next[h.next[l]])
         IN  [h1 EXCEPT !.hdr = FALSE, !.next[l] = NULL, !.prev[l] = NULL]

\* the allocations of an insert that keep the element block when strdup fails
insert_alloc_leak(h, s, m) ==
    IF m = "node_fail" \/ Cardinality(h.nodes) >= h.limit
    THEN [h |-> h, node |-> NULL]
    ELSE LET node == Min(Nodes \ h.nodes)
             h1 == [h EXCEPT !.nodes = @ \cup {node}]
         IN  IF m = "str_fail" \/ Cardinality(h.strs) >= h.limit
             THEN [h |-> h1, node |-> NULL]
             ELSE LET p == Min(StrIds \ h.strs)
                  IN  [h |-> [h1 EXCEPT !.strs = @ \cup {p}, !.mem[p] = s,
                                        !.value[node] = p],
                       node |-> node]

\* the common body of q_insert_head / q_insert_tail up to the link step;
\* m is the outcome of the two allocations: "ok", "node_fail", "str_fail"
insert_alloc(h, s, m) ==
    IF m = "node_fail" \/ Cardinality(h.nodes) >= h.limit
    THEN [h |-> h, node |-> NULL]
    ELSE LET node == Min(Nodes \ h.nodes)
             h1 == [h EXCEPT !.nodes = @ \cup {node}]
         IN  IF m = "str_fail" \/ Cardinality(h.strs) >= h.limit
             THEN [h |-> free_node(h1, node), node |-> NULL]
             ELSE LET p == Min(StrIds \ h.strs)
                  IN  [h |-> [h1 EXCEPT !.strs = @ \cup {p}, !.mem[p] = s,
                                        !.value[node] = p],
                       node |-> node]

q_insert_head(h, head, s, m) ==
    IF head = NULL THEN [h |-> h, ret |-> FALSE]
    ELSE LET a == insert_alloc(h, s, m)
         IN  IF a.node = NULL THEN [h |-> a.h, ret |-> FALSE]
             ELSE [h |-> list_add(a.h, a.node, head), ret |-> TRUE]

\* q_insert_tail that links with list_add
q_insert_tail_at_head(h, head, s, m) ==
    IF head = NULL THEN [h |-> h, ret |-> FALSE]
    ELSE LET a == insert_alloc(h, s, m)
         IN  IF a.node = NULL THEN [h |-> a.h, ret |-> FALSE]
             ELSE [h |-> list_add(a.h, a.node, head), ret |-> TRUE]

q_insert_tail(h, head, s, m) ==
    IF head = NULL THEN [h |-> h, ret |-> FALSE]
    ELSE LET a == insert_alloc(h, s, m)
         IN  IF a.node = NULL THEN [h |-> a.h, ret |-> FALSE]
             ELSE [h |-> list_add_tail(a.h, a.node, head), ret |-> TRUE]

\* nothing written through sp
NoBuf == [i \in {} |-> 0]

\* sp[i] = c on the bytes written so far
store_byte(b, i, c) == [k \in (DOMAIN b) \cup {i} |-> IF k = i THEN c ELSE b[k]]

\* a copy into sp that leaves the terminator to strncpy
copy_out_unterminated(src, bufsize) == strncpy(src, bufsize)

\* the copy of q_remove_head / q_remove_tail into sp (sp non-NULL):
\* strncpy(sp, e->value, bufsize); sp[bufsize - 1] = '\0', in size_t arithmetic
copy_out(src, bufsize) ==
    store_byte(strncpy(src, bufsize), (bufsize - 1) % (2 ^ SizeBits), 0)

\* sp is TRUE for a non-NULL buffer
q_remove_head(h, head, sp, bufsize) ==
    IF head = NULL \/ list_empty(h, head)
    THEN [h |-> h, ret |-> NULL, buf |-> NoBuf]
    ELSE LET e == list_entry(h.next[head])
             h1 == list_del(h, h.next[head])
         IN  [h |-> h1, ret |-> e,
              buf |-> IF sp THEN copy_out(h1.mem[h1.value[e]], bufsize) ELSE NoBuf]

\* q_remove_tail that takes head->next
q_remove_tail_from_head(h, head, sp, bufsize) ==
    IF head = NULL \/ list_empty(h, head)
    THEN [h |-> h, ret |-> NULL, buf |-> NoBuf]
    ELSE LET e == list_entry(h.next[head])
             h1 == list_del(h, h.next[head])
         IN  [h |-> h1, ret |-> e,
              buf |-> IF sp THEN copy_out(h1.mem[h1.value[e]], bufsize) ELSE NoBuf]

q_remove_tail(h, head, sp, bufsize) ==
    IF head = NULL \/ list_empty(h, head)
    THEN [h |-> h, ret |-> NULL, buf |-> NoBuf]
    ELSE LET e == list_entry(h.prev[head])
             h1 == list_del(h, h.prev[head])
         IN  [h |-> h1, ret |-> e,
              buf |-> IF sp THEN copy_out(h1.mem[h1.value[e]], bufsize) ELSE NoBuf]

\* a count that stops at the last element instead of the sentinel
RECURSIVE q_size_loop_skip_last(_, _, _, _)
q_size_loop_skip_last(h, head, li, len) ==
    IF li = head \/ h.next[li] = head THEN len
    ELSE q_size_loop_skip_last(h, head, h.next[li], len + 1)

\* the list_for_each loop of q_size
RECURSIVE q_size_loop(_, _, _, _)
q_size_loop(h, head, li, len) ==
    IF li = head THEN len ELSE q_size_loop(h, head, h.next[li], len + 1)

q_size(h, head) ==
    IF head = NULL THEN 0 ELSE q_size_loop(h, head, h.next[head], 0)

\* a fast/slow walk that stops one step early on an even length
RECURSIVE mid_walk_early(_, _, _, _)
mid_walk_early(h, head, fast, slow) ==
    IF h.next[fast] # head /\ h.next[h.next[fast]] # head
    THEN mid_walk_early(h, head, h.next[h.next[fast]], h.next[slow])
    ELSE slow

\* the fast/slow walk of q_delete_mid; yields slow
RECURSIVE mid_walk(_, _, _, _)
mid_walk(h, head, fast, slow) ==
    IF fast # head /\ h.next[fast] # head
    THEN mid_walk(h, head, h.next[h.next[fast]], h.next[slow])
    ELSE slow

q_delete_mid(h, head) ==
    IF head = NULL \/ list_empty(h, head)
    THEN [h |-> h, ret |-> FALSE]
    ELSE LET slow == mid_walk(h, head, h.next[head], h.next[head])
         IN  [h |-> q_release_element(list_del(h, slow), list_entry(slow)),
              ret |-> TRUE]

\* a q_delete_dup loop that keeps the last element of every run
RECURSIVE dup_loop_keep_one(_, _, _, _, _)
dup_loop_keep_one(h, head, curr, nxt, is_dup) ==
    IF curr = head THEN h
    ELSE LET same == /\ h.next[curr] # head
                     /\ strcmp(h.mem[h.value[curr]], h.mem[h.value[nxt]]) = 0
             h1 == IF same
                   THEN q_release_element(list_del(h, curr), curr)
                   ELSE h
         IN  dup_loop_keep_one(h1, head, nxt, h1.next[nxt], same)

\* a q_delete_dup loop whose flag, once set, stays set
RECURSIVE dup_loop_sticky(_, _, _, _, _)
dup_loop_sticky(h, head, curr, nxt, is_dup) ==
    IF curr = head THEN h
    ELSE LET same == /\ h.next[curr] # head
                     /\ strcmp(h.mem[h.value[curr]], h.mem[h.value[nxt]]) = 0
             h1 == IF same \/ is_dup
                   THEN q_release_element(list_del(h, curr), curr)
                   ELSE h
         IN  dup_loop_sticky(h1, head, nxt, h1.next[nxt], same \/ is_dup)

\* a q_delete_dup loop that deletes the first of two equal neighbours and
\* steps over the second
RECURSIVE dup_loop_jump(_, _, _, _, _)
dup_loop_jump(h, head, curr, nxt, is_dup) ==
    IF curr = head THEN h
    ELSE LET same == /\ h.next[curr] # head
                     /\ strcmp(h.mem[h.value[curr]], h.mem[h.value[nxt]]) = 0
             h1 == IF same
                   THEN q_release_element(list_del(h, curr), curr)
                   ELSE h
             after == IF same THEN h1.next[nxt] ELSE nxt
         IN  dup_loop_jump(h1, head, after, h1.next[after], FALSE)

\* the list_for_each_entry_safe loop of q_delete_dup
RECURSIVE dup_loop(_, _, _, _, _)
dup_loop(h, head, curr, nxt, is_dup) ==
    IF curr = head THEN h
    ELSE LET same == /\ h.next[curr] # head
                     /\ strcmp(h.mem[h.value[curr]], h.mem[h.value[nxt]]) = 0
             h1 == IF same \/ is_dup
                   THEN q_release_element(list_del(h, curr), curr)
                   ELSE h
         IN  dup_loop(h1, head, nxt, h1.next[nxt], same)

\* q_delete_dup that reports true whatever the handle
q_delete_dup_always_true(h, head) ==
    IF head = NULL THEN [h |-> h, ret |-> TRUE]
    ELSE [h |-> dup_loop(h, head, list_entry(h.next[head]),
                         list_entry(h.next[h.next[head]]), FALSE),
          ret |-> TRUE]

q_delete_dup(h, head) ==
    IF head = NULL THEN [h |-> h, ret |-> FALSE]
    ELSE [h |-> dup_loop(h, head, list_entry(h.next[head]),
                         list_entry(h.next[h.next[head]]), FALSE),
          ret |-> TRUE]

\* the list_for_each_safe loop of q_swap; yields the heap and temp
RECURSIVE swap_loop(_, _, _, _, _)
swap_loop(h, head, curr, nxt, temp) ==
    IF curr = head THEN [h |-> h, temp |-> temp]
    ELSE IF temp = NULL
         THEN swap_loop(list_del(h, curr), head, nxt, list_del(h, curr).next[nxt], curr)
         ELSE swap_loop(list_add(h, temp, curr), head, nxt,
                        list_add(h, temp, curr).next[nxt], NULL)

\* q_swap that does not put an unpaired last element back
q_swap_drop_last(h, head) ==
    IF head = NULL THEN h
    ELSE swap_loop(h, head, h.next[head], h.next[h.next[head]], NULL).h

q_swap(h, head) ==
    IF head = NULL THEN h
    ELSE LET r == swap_loop(h, head, h.next[head], h.next[h.next[head]], NULL)
         IN  IF r.temp # NULL THEN list_add_tail(r.h, r.temp, head) ELSE r.h

\* a q_reverse loop that stops before the last element
RECURSIVE reverse_loop_skip_last(_, _, _, _)
reverse_loop_skip_last(h, head, curr, nxt) ==
    IF curr = head \/ nxt = head THEN h
    ELSE LET h1 == list_move(h, curr, head)
         IN  reverse_loop_skip_last(h1, head, nxt, h1.next[nxt])

\* the list_for_each_safe loop of q_reverse
RECURSIVE reverse_loop(_, _, _, _)
reverse_loop(h, head, curr, nxt) ==
    IF curr = head THEN h
    ELSE LET h1 == list_move(h, curr, head)
         IN  reverse_loop(h1, head, nxt, h1.next[nxt])

q_reverse(h, head) ==
    IF head = NULL THEN h
    ELSE reverse_loop(h, head, h.next[head], h.next[h.next[head]])

\* a split whose slow pointer moves once, however long the chain
split_walk_once(h, fast, slow) ==
    IF fast # NULL /\ h.next[fast] # NULL THEN h.next[slow] ELSE slow

\* the fast/slow walk of q_merge_sort over the NULL-terminated chain; yields slow
RECURSIVE split_walk(_, _, _)
split_walk(h, fast, slow) ==
    IF fast # NULL /\ h.next[fast] # NULL
    THEN split_walk(h, h.next[h.next[fast]], h.next[slow])
    ELSE slow

\* (uintptr_t) left | (uintptr_t) right, where the merge loop has ended with
\* one of the two NULL
ptr_or(left, right) == IF left = NULL THEN right ELSE left

\* *next_ptr = p, where next_ptr is &merged (at = NULL) or &at->next
store_next(m, at, p) ==
    IF at = NULL THEN [m EXCEPT !.merged = p]
    ELSE [m EXCEPT !.h.next[at] = p]

\* a merge comparison with the sign turned round
take_left_desc(h, left, right) ==
    strcmp(h.mem[h.value[list_entry(left)]], h.mem[h.value[list_entry(right)]]) > 0

\* strcmp(left->value, right->value) < 0 takes left, anything else takes right
take_left(h, left, right) ==
    strcmp(h.mem[h.value[list_entry(left)]], h.mem[h.value[list_entry(right)]]) < 0

\* the merge loop of q_merge_sort; m = [h, merged], at names next_ptr
RECURSIVE merge_loop(_, _, _, _)
merge_loop(m, left, right, at) ==
    IF left # NULL /\ right # NULL
    THEN IF take_left(m.h, left, right)
         THEN merge_loop(store_next(m, at, left), m.h.next[left], right, left)
         ELSE merge_loop(store_next(m, at, right), left, m.h.next[right], right)
    ELSE store_next(m, at, ptr_or(left, right))

RECURSIVE q_merge_sort(_, _)
q_merge_sort(h, head) ==
    IF head = NULL \/ h.next[head] = NULL
    THEN [h |-> h, merged |-> head]
    ELSE LET slow == split_walk(h, head, head)
             h1 == [h EXCEPT !.next[h.prev[slow]] = NULL]
             l == q_merge_sort(h1, head)
             r == q_merge_sort(l.h, slow)
         IN  merge_loop([h |-> r.h, merged |-> NULL], l.merged, r.merged, NULL)

\* a q_sort loop that walks to the last element without restoring prev
RECURSIVE relink_loop_noprev(_, _)
relink_loop_noprev(h, curr) ==
    IF h.next[curr] # NULL
    THEN relink_loop_noprev(h, h.next[curr])
    ELSE [h |-> h, curr |-> curr]

\* the loop of q_sort that restores prev along the chain; yields the heap and curr
RECURSIVE relink_loop(_, _)
relink_loop(h, curr) ==
    IF h.next[curr] # NULL
    THEN relink_loop([h EXCEPT !.prev[h.next[curr]] = curr], h.next[curr])
    ELSE [h |-> h, curr |-> curr]

q_sort(h, head) ==
    IF head = NULL \/ list_empty(h, head) THEN h
    ELSE LET h1 == [h EXCEPT !.next[h.prev[head]] = NULL]
             s == q_merge_sort(h1, h1.next[head])
             h2 == [s.h EXCEPT !.next[head] = s.merged]
             r == relink_loop(h2, head)
         IN  [r.h EXCEPT !.prev[head] = r.curr, !.next[r.curr] = head]

\* node2 = head->next advanced i times
RECURSIVE advance(_, _, _)
advance(h, node, i) == IF i > 0 THEN advance(h, h.next[node], i - 1) ELSE node

\* a shuffle loop that writes node1's slot and leaves node2's as it was
RECURSIVE shuffle_loop_copy(_, _, _, _, _)
shuffle_loop_copy(h, head, node1, len, rnd) ==
    IF len > 1
    THEN LET node2 == advance(h, h.next[head], rnd[len])
             h1 == [h EXCEPT !.value[list_entry(node1)] = h.value[list_entry(node2)]]
         IN  shuffle_loop_copy(h1, head, h1.prev[node1], len - 1, rnd)
    ELSE h

\* a shuffle loop that never picks the slot of node1 itself
RECURSIVE shuffle_loop_others(_, _, _, _, _)
shuffle_loop_others(h, head, node1, len, rnd) ==
    IF len > 1
    THEN LET node2 == advance(h, h.next[head], rnd[len] % (len - 1))
             temp == h.value[list_entry(node1)]
             h1 == [h EXCEPT !.value[list_entry(node1)] = h.value[list_entry(node2)]]
             h2 == [h1 EXCEPT !.value[list_entry(node2)] = temp]
         IN  shuffle_loop_others(h2, head, h2.prev[node1], len - 1, rnd)
    ELSE h

\* the while loop of q_shuffle; rnd[len] is rand() % len of the pass with len
RECURSIVE shuffle_loop(_, _, _, _, _)
shuffle_loop(h, head, node1, len, rnd) ==
    IF len > 1
    THEN LET node2 == advance(h, h.next[head], rnd[len])
             temp == h.value[list_entry(node1)]
             h1 == [h EXCEPT !.value[list_entry(node1)] = h.value[list_entry(node2)]]
             h2 == [h1 EXCEPT !.value[list_entry(node2)] = temp]
         IN  shuffle_loop(h2, head, h2.prev[node1], len - 1, rnd)
    ELSE h

q_shuffle(h, head, rnd) ==
    IF head = NULL THEN h
    ELSE shuffle_loop(h, head, h.prev[head], q_size(h, head), rnd)

\* the values rand() % len can take in the passes of one q_shuffle call
RandChoices(n) == {f \in [2..n -> 0..(n - 1)] : \A l \in 2..n : f[l] < l}

(* ------------------------------ actions -------------------------------- *)
\* what a caller that keeps books knows after the call name(s) returned r:
\* ins, rem count the inserts and removes that succeeded on this queue, abs is
\* the queue as a sequence of strings with prepend, append, pop-front and
\* pop-back, last is the string of the last insert, out the string the last
\* remove took from abs (<<>> when it took none), calls tells the first call
\* and the second from the later ones
Books(g, name, r, s) ==
    IF name = "q_new"
    THEN [g EXCEPT !.ins = 0, !.rem = 0, !.abs = <<>>]
    ELSE IF name = "q_insert_head"
    THEN [g EXCEPT !.last = s,
                   !.ins = IF r THEN @ + 1 ELSE @,
                   !.abs = IF r THEN <<s>> \o @ ELSE @]
    ELSE IF name = "q_insert_tail"
    THEN [g EXCEPT !.last = s,
                   !.ins = IF r THEN @ + 1 ELSE @,
                   !.abs = IF r THEN Append(@, s) ELSE @]
    ELSE IF name = "q_remove_head"
    THEN [g EXCEPT !.rem = IF r # NULL THEN @ + 1 ELSE @,
                   !.out = IF g.abs = <<>> THEN <<>> ELSE Head(g.abs),
                   !.abs = IF @ = <<>> THEN @ ELSE Tail(@)]
    ELSE IF name = "q_remove_tail"
    THEN [g EXCEPT !.rem = IF r # NULL THEN @ + 1 ELSE @,
                   !.out = IF g.abs = <<>> THEN <<>> ELSE g.abs[Len(g.abs)],
                   !.abs = IF @ = <<>> THEN @ ELSE SubSeq(@, 1, Len(@) - 1)]
    ELSE g

Track(g, name, r, s) ==
    IF ~g.on THEN g
    ELSE [Books(g, name, r, s) EXCEPT !.calls = IF @ < 3 THEN @ + 1 ELSE @]

NoGhost ==
    [on |-> FALSE, calls |-> 0, ins |-> 0, rem |-> 0, abs |-> <<>>,
     last |-> <<>>, out |-> <<>>]

\* the books of a caller that has made the successful inserts of vals, in the
\* order abs, and nothing else
BooksOf(abs) == [NoGhost EXCEPT !.on = TRUE, !.ins = Len(abs), !.abs = abs]

Commit(h, nq, nheld, name, r, b, a, s) ==
    /\ q' = nq
    /\ next' = h.next
    /\ prev' = h.prev
    /\ value' = h.value
    /\ mem' = h.mem
    /\ nodes' = h.nodes
    /\ strs' = h.strs
    /\ hdr' = h.hdr
    /\ limit' = h.limit
    /\ err' = h.err
    /\ held' = nheld
    /\ op' = name
    /\ ret' = r
    /\ buf' = b
    /\ arg' = a
    /\ pre' = pre
    /\ ghost' = Track(ghost, name, r, s)

\* the state a caller is in with the handle nq and the heap h, nothing called yet
Start(h, nq, g) ==
    /\ q = nq
    /\ next = h.next
    /\ prev = h.prev
    /\ value = h.value
    /\ mem = h.mem
    /\ nodes = h.nodes
    /\ strs = h.strs
    /\ hdr = h.hdr
    /\ limit = h.limit
    /\ err = h.err
    /\ held = {}
    /\ op = "init"
    /\ ret = NULL
    /\ buf = NoBuf
    /\ arg = <<>>
    /\ pre = [q |-> nq, h |-> h]
    /\ ghost = g

\* before q_new: no handle, nothing allocated
Init == Start(EmptyHeap(MaxLive), NULL, NoGhost)

New ==
    /\ q = NULL
    /\ \E m \in {"ok", "fail"} :
         LET r == q_new(Heap, m)
         IN  Commit(r.h, r.ret, held, "q_new", r.ret, NoBuf, <<m>>, <<>>)

\* the caller drops its handle once the queue is freed
Free ==
    Commit(q_free(Heap, q), NULL, held, "q_free", NULL, NoBuf, <<>>, <<>>)

InsertHead ==
    \E s \in Values, m \in {"ok", "node_fail", "str_fail"} :
        LET r == q_insert_head(Heap, q, s, m)
        IN  Commit(r.h, q, held, "q_insert_head", r.ret, NoBuf, <<m>>, s)

InsertTail ==
    \E s \in Values, m \in {"ok", "node_fail", "str_fail"} :
        LET r == q_insert_tail(Heap, q, s, m)
        IN  Commit(r.h, q, held, "q_insert_tail", r.ret, NoBuf, <<m>>, s)

RemoveHead ==
    \E sp \in BOOLEAN, bufsize \in 0..MaxBuf :
        /\ sp \/ bufsize = 0
        /\ Cardinality(held) < MaxHeld
        /\ LET r == q_remove_head(Heap, q, sp, bufsize)
           IN  Commit(r.h, q, IF r.ret = NULL THEN held ELSE held \cup {r.ret},
                      "q_remove_head", r.ret, r.buf, <<sp, bufsize>>, <<>>)

RemoveTail ==
    \E sp \in BOOLEAN, bufsize \in 0..MaxBuf :
        /\ sp \/ bufsize = 0
        /\ Cardinality(held) < MaxHeld
        /\ LET r == q_remove_tail(Heap, q, sp, bufsize)
           IN  Commit(r.h, q, IF r.ret = NULL THEN held ELSE held \cup {r.ret},
                      "q_remove_tail", r.ret, r.buf, <<sp, bufsize>>, <<>>)

\* the caller releases an element it got from q_remove_*
Release ==
    \E e \in held :
        Commit(q_release_element(Heap, e), q, held \ {e}, "q_release_element",
               NULL, NoBuf, <<e>>, <<>>)

Size ==
    Commit(Heap, q, held, "q_size", q_size(Heap, q), NoBuf, <<>>, <<>>)

DeleteMid ==
    LET r == q_delete_mid(Heap, q)
    IN  Commit(r.h, q, held, "q_delete_mid", r.ret, NoBuf, <<>>, <<>>)

DeleteDup ==
    LET r == q_delete_dup(Heap, q)
    IN  Commit(r.h, q, held, "q_delete_dup", r.ret, NoBuf, <<>>, <<>>)

Swap ==
    Commit(q_swap(Heap, q), q, held, "q_swap", NULL, NoBuf, <<>>, <<>>)

Reverse ==
    Commit(q_reverse(Heap, q), q, held, "q_reverse", NULL, NoBuf, <<>>, <<>>)

Sort ==
    Commit(q_sort(Heap, q), q, held, "q_sort", NULL, NoBuf, <<>>, <<>>)

Shuffle ==
    \E rnd \in RandChoices(q_size(Heap, q)) :
        Commit(q_shuffle(Heap, q, rnd), q, held, "q_shuffle", NULL, NoBuf, <<rnd>>, <<>>)

Next ==
    \/ New
    \/ Free
    \/ InsertHead
    \/ InsertTail
    \/ RemoveHead
    \/ RemoveTail
    \/ Release
    \/ Size
    \/ DeleteMid
    \/ DeleteDup
    \/ Swap
    \/ Reverse
    \/ Sort
    \/ Shuffle

Spec == Init /\ [][Next]_vars

(* ---------------- one call on every queue of a given content ------------ *)
\* the heap after q_new and one insert per entry of vals, all at the same end
RECURSIVE Build(_, _, _, _)
Build(h, vals, tail, i) ==
    IF i > Len(vals) THEN h
    ELSE Build(IF tail THEN q_insert_tail(h, HeadAddr, vals[i], "ok").h
                       ELSE q_insert_head(h, HeadAddr, vals[i], "ok").h,
               vals, tail, i + 1)

Inputs == UNION {[1..k -> Values] : k \in 0..MaxNodes}

InitOps ==
    \/ Start(EmptyHeap(MaxNodes), NULL, NoGhost)
    \/ \E vals \in Inputs, tail \in BOOLEAN :
          Start(Build(q_new(EmptyHeap(MaxNodes), "ok").h, vals, tail, 1), HeadAddr, NoGhost)

NextOps ==
    \/ op = "init" /\ Free
    \/ op = "init" /\ InsertHead
    \/ op = "init" /\ InsertTail
    \/ op = "init" /\ RemoveHead
    \/ op = "init" /\ RemoveTail
    \/ op = "init" /\ Size
    \/ op = "init" /\ DeleteMid
    \/ op = "init" /\ DeleteDup
    \/ op = "init" /\ Swap
    \/ op = "init" /\ Reverse
    \/ op = "init" /\ Sort

SpecOps == InitOps /\ [][NextOps]_vars

(* ------------------------- reading a queue ------------------------------ *)
Range(s) == {s[i] : i \in DOMAIN s}

\* the blocks met from curr by following next, up to head, NULL or fuel blocks
RECURSIVE Walk(_, _, _, _)
Walk(h, head, curr, fuel) ==
    IF curr = head \/ curr = NULL \/ fuel = 0 THEN <<>>
    ELSE <<curr>> \o Walk(h, head, h.next[curr], fuel - 1)

\* the elements of the queue in list order
Order(h, head) == IF head = NULL THEN <<>> ELSE Walk(h, head, h.next[head], MaxNodes + 1)

Payload(h, n) == h.mem[h.value[n]]

Payloads(h, o) == [i \in DOMAIN o |-> Payload(h, o[i])]

Ascending(h, o) ==
    \A i \in 1..(Len(o) - 1) : strcmp(Payload(h, o[i]), Payload(h, o[i + 1])) <= 0

Reversed(s) == [i \in DOMAIN s |-> s[Len(s) + 1 - i]]

PosIn(s, x) == CHOOSE i \in DOMAIN s : s[i] = x

\* s without its entry at index k
Without(s, k) == [i \in 1..(Len(s) - 1) |-> IF i < k THEN s[i] ELSE s[i + 1]]

\* the queue is circular and doubly consistent
WellFormed(h, head) ==
    LET o == Order(h, head)
        reach == Range(o) \cup {head}
    IN  /\ h.hdr
        /\ Range(o) \subseteq h.nodes
        /\ Cardinality(Range(o)) = Len(o)
        /\ \A n \in reach :
             /\ h.next[n] \in reach
             /\ h.prev[n] \in reach
             /\ h.prev[h.next[n]] = n
             /\ h.next[h.prev[n]] = n

PreOrder == Order(pre.h, pre.q)
PostOrder == Order(Heap, q)

\* elements and payloads are the blocks of before, each element with its payload
SameBlocks ==
    /\ nodes = pre.h.nodes
    /\ strs = pre.h.strs
    /\ value = pre.h.value
    /\ mem = pre.h.mem
    /\ ~err

(* --------------- two calls in a row on every queue content -------------- *)
InitPair ==
    \E vals \in Inputs, tail \in BOOLEAN :
        Start(Build(q_new(EmptyHeap(MaxNodes), "ok").h, vals, tail, 1), HeadAddr,
              BooksOf(IF tail THEN vals ELSE Reversed(vals)))

NextPair ==
    \/ ghost.calls = 0 /\ InsertHead
    \/ ghost.calls = 0 /\ InsertTail
    \/ ghost.calls = 0 /\ DeleteDup
    \/ ghost.calls = 1 /\ op = "q_insert_head" /\ ret = TRUE /\ RemoveHead
    \/ ghost.calls = 1 /\ op = "q_insert_tail" /\ ret = TRUE /\ RemoveTail
    \/ ghost.calls = 1 /\ op = "q_delete_dup" /\ DeleteDup

SpecPair == InitPair /\ [][NextPair]_vars

(* ------- inserts, removes and q_size in any order on a new queue -------- *)
InitFifo == Start(EmptyHeap(MaxLive), NULL, BooksOf(<<>>))

NextFifo ==
    \/ New
    \/ ghost.ins < MaxIns /\ InsertHead
    \/ ghost.ins < MaxIns /\ InsertTail
    \/ RemoveHead
    \/ RemoveTail
    \/ Release
    \/ Size

SpecFifo == InitFifo /\ [][NextFifo]_vars

(* ------------- one q_shuffle on every queue of a given content --------- *)
ShuffleInputs == UNION {[1..k -> Values] : k \in 0..MaxShuffle}

InitShuffle ==
    \/ Start(EmptyHeap(MaxNodes), NULL, NoGhost)
    \/ \E vals \in ShuffleInputs, tail \in BOOLEAN :
          Start(Build(q_new(EmptyHeap(MaxNodes), "ok").h, vals, tail, 1), HeadAddr, NoGhost)

NextShuffle == op = "init" /\ Shuffle

SpecShuffle == InitShuffle /\ [][NextShuffle]_vars

(* ------------------------------- claims --------------------------------- *)
\* C1: at every API boundary the queue of a live handle is circular and doubly
\* consistent: every block n reached from the sentinel has n.next.prev = n and
\* n.prev.next = n, and following next from any element comes back to the
\* sentinel.
C1_CircularConsistent == q # NULL => WellFormed(Heap, q)

C1_Witness == op = "q_sort" /\ q # NULL /\ Len(PostOrder) = MaxLive

\* C2: q_sort is stable: elements with equal payloads keep their relative order.
C2_SortStable ==
    (op = "q_sort" /\ q # NULL) =>
        \A i, j \in DOMAIN PreOrder :
            (i < j /\ strcmp(Payload(pre.h, PreOrder[i]), Payload(pre.h, PreOrder[j])) = 0)
                => PosIn(PostOrder, PreOrder[i]) < PosIn(PostOrder, PreOrder[j])

\* C3: q_remove_head / q_remove_tail with a non-NULL sp write only inside the
\* bufsize bytes of sp, for every bufsize including 0.
C3_WritesInsideBuffer ==
    (op \in {"q_remove_head", "q_remove_tail"} /\ ret # NULL /\ arg[1])
        => DOMAIN buf \subseteq 0..(arg[2] - 1)

\* C4: every allocated element is either linked in the queue or held by the
\* caller, never both; free() is never handed a block that is not allocated; no
\* freed block is reachable from the sentinel; every element owns one allocated
\* payload that no other element has, and no payload outlives its element.
C4_OwnedFreedOnce ==
    LET linked == Range(PostOrder)
    IN  /\ ~err
        /\ hdr <=> q # NULL
        /\ linked \subseteq nodes
        /\ held \subseteq nodes
        /\ linked \cap held = {}
        /\ nodes = linked \cup held
        /\ \A n \in nodes : value[n] \in strs
        /\ \A n, m \in nodes : value[n] = value[m] => n = m
        /\ strs = {value[n] : n \in nodes}

C4_Witness ==
    /\ op = "q_delete_dup"
    /\ ret = TRUE
    /\ held # {}
    /\ nodes = held
    /\ q # NULL

\* C5: after q_sort the payloads read from the sentinel are ascending and the
\* list holds the same elements with the same payloads as before; a NULL, empty
\* or one-element queue is unchanged.
C5_SortAscendingPermutation ==
    op = "q_sort" =>
        /\ SameBlocks
        /\ q # NULL => /\ WellFormed(Heap, q)
                       /\ Ascending(Heap, PostOrder)
                       /\ Len(PostOrder) = Len(PreOrder)
                       /\ Range(PostOrder) = Range(PreOrder)
        /\ Len(PreOrder) <= 1 => Heap = pre.h

C5_Witness ==
    /\ op = "q_sort"
    /\ Len(PreOrder) = MaxNodes
    /\ ~Ascending(pre.h, PreOrder)
    /\ PostOrder # PreOrder

\* C6: q_insert_head / q_insert_tail with a NULL header, a failed element
\* allocation or a failed payload allocation return false and leave the heap
\* exactly as it was, nothing linked and nothing left allocated; a call that
\* returns true has linked one new element.
C6_InsertFailsAtomically ==
    op \in {"q_insert_head", "q_insert_tail"} =>
        /\ (pre.q = NULL \/ arg[1] \in {"node_fail", "str_fail"}) => ret = FALSE
        /\ ret = FALSE => Heap = pre.h
        /\ ret = TRUE => Len(PostOrder) = Len(PreOrder) + 1

C6_Witness ==
    /\ op = "q_insert_tail"
    /\ arg = <<"str_fail">>
    /\ ret = FALSE
    /\ Len(PreOrder) >= 2

\* C7: on an ascending queue q_delete_dup leaves exactly the elements whose
\* payload occurs once, in their order, releases every other element, and
\* returns true; it returns false exactly for a NULL header.
C7_DeleteDupRemovesAllCopies ==
    (op = "q_delete_dup" /\ Ascending(pre.h, PreOrder)) =>
        LET once(n) == \A m \in Range(PreOrder) :
                           strcmp(Payload(pre.h, n), Payload(pre.h, m)) = 0 => m = n
            keep == SelectSeq(PreOrder, once)
        IN  /\ ret = (pre.q # NULL)
            /\ PostOrder = keep
            /\ ~err
            /\ nodes = Range(keep)
            /\ strs = {pre.h.value[n] : n \in Range(keep)}
            /\ \A n \in Range(keep) : value[n] = pre.h.value[n] /\ Payload(Heap, n) = Payload(pre.h, n)
            /\ q # NULL => WellFormed(Heap, q)

C7_Witness ==
    /\ op = "q_delete_dup"
    /\ Payloads(pre.h, PreOrder) = <<(<<1>>), (<<1>>), (<<1, 2>>), (<<2>>), (<<2>>)>>
    /\ Payloads(Heap, PostOrder) = <<(<<1, 2>>)>>

\* C8: on a queue of n >= 1 elements q_delete_mid unlinks and releases the
\* element at zero-based index n \div 2, keeps the others in order and returns
\* true; on a NULL or empty queue it returns false and changes nothing.
C8_DeleteMidIndex ==
    op = "q_delete_mid" =>
        LET n == Len(PreOrder)
        IN  IF n >= 1
            THEN LET mid == PreOrder[(n \div 2) + 1]
                 IN  /\ ret = TRUE
                     /\ PostOrder = Without(PreOrder, (n \div 2) + 1)
                     /\ ~err
                     /\ nodes = pre.h.nodes \ {mid}
                     /\ strs = pre.h.strs \ {pre.h.value[mid]}
                     /\ \A e \in nodes : value[e] = pre.h.value[e]
                     /\ WellFormed(Heap, q)
            ELSE ret = FALSE /\ Heap = pre.h

C8_Witness ==
    /\ op = "q_delete_mid"
    /\ Len(PreOrder) = 6
    /\ PostOrder = Without(PreOrder, 4)

\* C9: q_reverse leaves the elements in the opposite order, every element with
\* the payload it had, nothing allocated or freed.
C9_ReverseOrder ==
    op = "q_reverse" =>
        /\ PostOrder = Reversed(PreOrder)
        /\ SameBlocks
        /\ q # NULL => WellFormed(Heap, q)

C9_Witness == op = "q_reverse" /\ Len(PreOrder) = MaxNodes

\* C10: q_swap exchanges the elements at positions 2i and 2i+1 by relinking,
\* an odd last element stays last, payloads stay with their elements; a NULL,
\* empty or one-element queue is unchanged.
C10_SwapPairs ==
    op = "q_swap" =>
        LET n == Len(PreOrder)
            swapped == [i \in 1..n |->
                          IF i % 2 = 1
                          THEN (IF i = n THEN PreOrder[i] ELSE PreOrder[i + 1])
                          ELSE PreOrder[i - 1]]
        IN  /\ PostOrder = swapped
            /\ SameBlocks
            /\ q # NULL => WellFormed(Heap, q)
            /\ n <= 1 => Heap = pre.h

C10_Witness ==
    /\ op = "q_swap"
    /\ Len(PreOrder) = 5
    /\ PostOrder[1] = PreOrder[2]
    /\ PostOrder[5] = PreOrder[5]

\* C13: when q_remove_head / q_remove_tail return an element, sp is non-NULL
\* and bufsize >= 1, sp holds the first min(length, bufsize - 1) bytes of the
\* element's payload and a NUL right after them, every byte written lies inside
\* the buffer, and the element still has its payload, unchanged.
C13_BufferHoldsPrefix ==
    (op \in {"q_remove_head", "q_remove_tail"} /\ ret # NULL /\ arg[1] /\ arg[2] >= 1) =>
        LET s == Payload(pre.h, ret)
            n == Min({Len(s), arg[2] - 1})
        IN  /\ DOMAIN buf = 0..(arg[2] - 1)
            /\ \A i \in 0..(n - 1) : buf[i] = s[i + 1]
            /\ buf[n] = 0
            /\ ret \in nodes
            /\ value[ret] = pre.h.value[ret]
            /\ value[ret] \in strs
            /\ Payload(Heap, ret) = s

\* a payload of two bytes cut to one byte and the terminator
C13_Witness ==
    /\ op = "q_remove_tail"
    /\ ret # NULL
    /\ arg = <<TRUE, 2>>
    /\ Payload(Heap, ret) = <<1, 2>>
    /\ buf = [i \in 0..1 |-> IF i = 0 THEN 1 ELSE 0]

\* the NULL-terminated chain that starts at head
Chain(h, head) == Walk(h, NULL, head, MaxNodes + 1)

\* every split that q_merge_sort(head) makes, itself and in its recursive
\* calls, cuts the chain of k nodes after its first k \div 2 nodes and does it
\* through the prev pointer of the node that starts the right chain
RECURSIVE SplitsOk(_, _)
SplitsOk(h, head) ==
    IF head = NULL \/ h.next[head] = NULL THEN TRUE
    ELSE LET c == Chain(h, head)
             k == Len(c)
             slow == split_walk(h, head, head)
             h1 == [h EXCEPT !.next[h.prev[slow]] = NULL]
             l == q_merge_sort(h1, head)
         IN  /\ slow = c[(k \div 2) + 1]
             /\ h.prev[slow] = c[k \div 2]
             /\ Chain(h1, head) = SubSeq(c, 1, k \div 2)
             /\ Chain(h1, slow) = SubSeq(c, (k \div 2) + 1, k)
             /\ Chain(h1, head) # <<>>
             /\ Chain(h1, slow) # <<>>
             /\ SplitsOk(h1, head)
             /\ SplitsOk(l.h, slow)

\* C18: every split of q_merge_sort, at every depth of the recursion, cuts a
\* chain of k >= 2 nodes into the first k \div 2 nodes and the other k - k \div 2,
\* both non-empty, and slow->prev is the node before slow when the cut is made.
C18_SplitHalves ==
    (op = "q_sort" /\ pre.q # NULL /\ ~list_empty(pre.h, pre.q)) =>
        LET h1 == [pre.h EXCEPT !.next[pre.h.prev[pre.q]] = NULL]
        IN  SplitsOk(h1, h1.next[pre.q])

C18_Witness ==
    /\ op = "q_sort"
    /\ Len(PreOrder) = 5
    /\ ~Ascending(pre.h, PreOrder)
    /\ Ascending(Heap, PostOrder)

\* the element at index i of o has a neighbour in o with an equal payload
InRun(h, o, i) ==
    \/ i > 1 /\ strcmp(Payload(h, o[i - 1]), Payload(h, o[i])) = 0
    \/ i < Len(o) /\ strcmp(Payload(h, o[i]), Payload(h, o[i + 1])) = 0

\* C20: on any queue, ascending or not, q_delete_dup unlinks and releases
\* exactly the elements that have a neighbour with an equal payload and keeps
\* the others in their order; an element after a closed run stays unless it is
\* in a run itself.
C20_DeleteDupRunsOnly ==
    (op = "q_delete_dup" /\ pre.q # NULL) =>
        LET alone(n) == ~InRun(pre.h, PreOrder, PosIn(PreOrder, n))
            keep == SelectSeq(PreOrder, alone)
        IN  /\ PostOrder = keep
            /\ ~err
            /\ nodes = Range(keep)
            /\ strs = {pre.h.value[n] : n \in Range(keep)}
            /\ \A n \in Range(keep) : Payload(Heap, n) = Payload(pre.h, n)

\* b, b, a, b, a, a: the single a and the single b after the first run stay
C20_Witness ==
    /\ op = "q_delete_dup"
    /\ Payloads(pre.h, PreOrder) = <<(<<2>>), (<<2>>), (<<1>>), (<<2>>), (<<1>>), (<<1>>)>>
    /\ Payloads(Heap, PostOrder) = <<(<<1>>), (<<2>>)>>

\* C12: q_insert_head and then q_remove_head, or q_insert_tail and then
\* q_remove_tail, returns an element whose payload is the inserted string, and
\* the queue is as before the insert: the same elements with the same links
\* and payloads, only the returned element allocated in addition.
C12_InsertRemoveRoundTrip ==
    (ghost.calls = 2 /\ op \in {"q_remove_head", "q_remove_tail"}) =>
        /\ ret # NULL
        /\ ret \notin pre.h.nodes
        /\ Payload(Heap, ret) = ghost.last
        /\ PostOrder = PreOrder
        /\ WellFormed(Heap, q)
        /\ \A n \in Range(PreOrder) \cup {q} :
               next[n] = pre.h.next[n] /\ prev[n] = pre.h.prev[n]
        /\ \A n \in Range(PreOrder) :
               value[n] = pre.h.value[n] /\ Payload(Heap, n) = Payload(pre.h, n)
        /\ nodes = pre.h.nodes \cup {ret}
        /\ strs = pre.h.strs \cup {value[ret]}
        /\ ~err

C12_Witness ==
    /\ ghost.calls = 2
    /\ op = "q_remove_tail"
    /\ Len(PreOrder) = 3
    /\ ret # NULL
    /\ ghost.last = <<1, 2>>

\* C17: on a queue that was ascending, a second q_delete_dup right after the
\* first changes nothing: the heap, the handle and the return value stay.
C17_DeleteDupIdempotent ==
    [][(/\ ghost.calls = 1
        /\ op = "q_delete_dup"
        /\ op' = "q_delete_dup"
        /\ Ascending(pre.h, PreOrder))
          => (Heap' = Heap /\ q' = q /\ ret' = TRUE /\ ret = TRUE)]_vars

C17_Witness ==
    /\ ghost.calls = 2
    /\ op = "q_delete_dup"
    /\ Ascending(pre.h, PreOrder)
    /\ Len(PreOrder) = MaxNodes
    /\ Len(PostOrder) = 2

\* C11: q_size returns the number of successful inserts minus the number of
\* successful removes made on the queue since q_new, returns 0 for a NULL
\* handle and for an empty queue, and leaves the heap and the handle as they
\* were.
C11_SizeCountsInsertsMinusRemoves ==
    [][op' = "q_size" =>
          /\ ret' = ghost'.ins - ghost'.rem
          /\ (q = NULL \/ PostOrder = <<>>) => ret' = 0
          /\ ret' = Len(PostOrder)
          /\ Heap' = Heap
          /\ q' = q]_vars

C11_Witness ==
    /\ op = "q_size"
    /\ ghost.ins = MaxIns
    /\ ghost.rem = 2
    /\ ret = 2

\* C19: at every API boundary the payloads read from the sentinel forward are
\* the sequence kept by prepend (q_insert_head), append (q_insert_tail),
\* pop-front (q_remove_head) and pop-back (q_remove_tail), and each remove
\* returns the element whose payload the sequence gave up, or NULL when the
\* sequence was empty.
C19_ListIsSequence ==
    /\ q # NULL => Payloads(Heap, PostOrder) = ghost.abs
    /\ q = NULL => ghost.abs = <<>>
    /\ op \in {"q_remove_head", "q_remove_tail"} =>
          /\ ret = NULL <=> ghost.out = <<>>
          /\ ret # NULL => Payload(Heap, ret) = ghost.out

\* "a" then "b" appended, "a" popped from the front while "ab" was appended
C19_Witness ==
    /\ op = "q_remove_head"
    /\ ret # NULL
    /\ ghost.out = <<1>>
    /\ ghost.abs = <<(<<2>>), (<<1, 2>>)>>
    /\ ghost.ins = 3

\* C14: q_shuffle changes nothing but which payload each element points to:
\* the links and the order of the elements, the allocated blocks and the
\* content of every payload are as before, the elements point to the payloads
\* of before, each to one of its own, so every content occurs as often as
\* before; a NULL, empty or one-element queue is unchanged.
C14_ShuffleExchangesPayloads ==
    op = "q_shuffle" =>
        LET elems == Range(PreOrder)
        IN  /\ next = pre.h.next
            /\ prev = pre.h.prev
            /\ PostOrder = PreOrder
            /\ nodes = pre.h.nodes
            /\ strs = pre.h.strs
            /\ mem = pre.h.mem
            /\ hdr = pre.h.hdr
            /\ ~err
            /\ {value[n] : n \in elems} = {pre.h.value[n] : n \in elems}
            /\ \A n, m \in elems : value[n] = value[m] => n = m
            /\ \A v \in Values :
                   Cardinality({n \in elems : Payload(Heap, n) = v})
                       = Cardinality({n \in elems : Payload(pre.h, n) = v})
            /\ Len(PreOrder) <= 1 => Heap = pre.h

C14_Witness ==
    /\ op = "q_shuffle"
    /\ Len(PreOrder) = MaxShuffle
    /\ Payloads(pre.h, PreOrder) = <<(<<1>>), (<<2>>), (<<1, 2>>)>>
    /\ Payloads(Heap, PostOrder) = <<(<<1, 2>>), (<<1>>), (<<2>>)>>

\* the payload pointers of the elements in list order
Slots(h, head) == [i \in DOMAIN Order(h, head) |-> h.value[Order(h, head)[i]]]

RECURSIVE Factorial(_)
Factorial(n) == IF n <= 1 THEN 1 ELSE n * Factorial(n - 1)

\* C15: with rand() % len taking every value of 0..len-1, the q_shuffle of n
\* elements can leave the n payloads in every one of the n! orders, and every
\* order it leaves is the result of exactly one sequence of random indices, so
\* all orders come from the same number of sequences.
C15_ShuffleUniform ==
    (op = "q_shuffle" /\ pre.q # NULL) =>
        LET n == Len(PreOrder)
            result(rnd) == Slots(q_shuffle(pre.h, pre.q, rnd), pre.q)
        IN  /\ Cardinality(RandChoices(n)) = Factorial(n)
            /\ Cardinality({result(rnd) : rnd \in RandChoices(n)}) = Factorial(n)
            /\ Cardinality({rnd \in RandChoices(n) : result(rnd) = Slots(Heap, q)}) = 1

\* the order of the payloads turned round
C15_Witness ==
    /\ op = "q_shuffle"
    /\ Len(PreOrder) = MaxShuffle
    /\ Slots(Heap, q) = Reversed(Slots(pre.h, pre.q))

\* C16: a call with a NULL handle changes nothing in the heap and returns
\* false (q_insert_head, q_insert_tail, q_delete_mid, q_delete_dup), NULL with
\* nothing written to sp (q_remove_head, q_remove_tail) or 0 (q_size); q_size,
\* q_reverse, q_sort, q_shuffle, q_swap, q_remove_head, q_remove_tail and
\* q_delete_mid on an empty queue leave the heap as it was, the queue empty and
\* well formed, and return 0, NULL or false.
C16_SafeOnNullAndEmpty ==
    [][/\ (q = NULL /\ op' \notin {"q_new", "q_release_element"}) =>
            /\ Heap' = Heap
            /\ q' = NULL
            /\ op' \in {"q_insert_head", "q_insert_tail",
                        "q_delete_mid", "q_delete_dup"} => ret' = FALSE
            /\ op' \in {"q_remove_head", "q_remove_tail"} => ret' = NULL /\ buf' = NoBuf
            /\ op' = "q_size" => ret' = 0
       /\ (/\ q # NULL
           /\ PostOrder = <<>>
           /\ op' \in {"q_size", "q_reverse", "q_sort", "q_shuffle", "q_swap",
                       "q_remove_head", "q_remove_tail", "q_delete_mid"}) =>
            /\ Heap' = Heap
            /\ q' = q
            /\ list_empty(Heap, q)
            /\ WellFormed(Heap, q)
            /\ op' \in {"q_remove_head", "q_remove_tail"} => ret' = NULL /\ buf' = NoBuf
            /\ op' = "q_delete_mid" => ret' = FALSE
            /\ op' = "q_size" => ret' = 0]_vars

\* q_sort on a queue that a remove has emptied
C16_Witness ==
    /\ op = "q_sort"
    /\ q # NULL
    /\ PostOrder = <<>>
    /\ held # {}

====
